---- MODULE Spec2Model ----
(***************************************************************************)
(* CollabSpace-server: the real-time room / presence / whiteboard          *)
(* synchronisation subsystem (socket handlers, presence utility, socket    *)
(* rate limiter, whiteboard document model).                               *)
(*                                                                         *)
(* Every rate-limited handler is modelled at its declared signature        *)
(* (socket, data): `socket` is the calling connection, `data` the payload. *)
(*                                                                         *)
(* The specifications share the variables; each takes the steps of one     *)
(* part of the server:                                                     *)
(*   Spec, SpecJoin, SpecRace   the Room Coordinator (join / leave /       *)
(*                              disconnect, presence)                      *)
(*   SpecWB, SpecEcho, SpecThrottle, SpecSnap, SpecSticky                  *)
(*                              the whiteboard handlers and routes         *)
(*   SpecRL, SpecConn, SpecHttp the rate limiters and the handshake        *)
(*   SpecChat, SpecRTC          chat and call signalling                   *)
(***************************************************************************)
EXTENDS Integers, Sequences, FiniteSets, TLC

None == "none"

(* ---- identities, connections, rooms ---------------------------------- *)

\* Three live connections; c1 and c2 belong to the same identity.
Conns == {"c1", "c2", "c3"}
Users == {"u1", "u2"}
Rooms == {"r1", "r2"}

userOf(c) == IF c = "c3" THEN "u2" ELSE "u1"

\* Room documents: owner and the owner's subscription plan.
ownerOf(r) == IF r = "r1" THEN "u2" ELSE "u1"
planOf(u) == IF u = "u2" THEN "FREE" ELSE "PRO"

FreeMaxParticipants == 2
ProMaxParticipants == 10
TeamsMaxParticipants == 50
RoomMaxParticipantsDefault == 10

VARIABLES
  presence,           \* Redis hash room:<r>:users, as a set of entries
  rooms,              \* socket.rooms of each connection (own id left out):
                      \* room ids and chat channels "chat:<room id>"
  currentRoom,        \* socket.data.currentRoom
  disconnectingRooms, \* socket.data.disconnectingRooms
  conn,               \* "open", "cleanup" (disconnect handlers running), "closed"
  participants,       \* Room.participants
  out,                \* what the last handler step emitted
  last,               \* the last handler step: operation, connection, room, outcome
  leftRecv,           \* user-left events each connection got so far from c's
                      \* disconnect, while its disconnect handlers run
  wb,                 \* the stored whiteboard document of each room
  task,               \* the whiteboard handler each connection is running
  now,                \* Date.now()
  updateRateLimit,    \* the updateRateLimit map
  recvSeq,            \* number of whiteboard events and requests received so far
  lastBcast,          \* the latest write broadcast of each room
  accAt,              \* when each identity's latest accepted write to a room was handled
  rlCount,            \* Redis counters ratelimit:socket:<user>:<event>
  rlExpireAt,         \* their expiry times (0: none set)
  rlFirst,            \* when the first event of each counter's window arrived
  rlTask,             \* the rate-limited event each connection is running
  refresh,            \* the updateUserActivity call each connection is running
  messages,           \* the stored chat messages of each room: their senders
  connLimit,          \* Redis counters connlimit:<address>, with their expiry
  joining,            \* the join-room handler each connection has awaiting I/O
  http                \* HTTP limiter: the key rate_limit:<ip>:<path>, the requests
                      \* in flight for it, and how many were let through

roomVars == <<presence, rooms, currentRoom, disconnectingRooms, conn,
              participants, leftRecv, refresh, messages, joining>>
wbVars == <<wb, task, updateRateLimit, recvSeq, lastBcast, accAt>>
rlVars == <<rlCount, rlExpireAt, rlFirst, rlTask, connLimit, http>>

(* ---- emissions ------------------------------------------------------- *)

\* One emit: event name, the connections it is delivered to, room, subject.
Emit(ev, to, r, u) == [ev |-> ev, to |-> to, room |-> r, user |-> u]

\* Connections currently in room r's broadcast channel.
Members(rs, r) == {d \in Conns : r \in rs[d]}

\* socket.to(r).emit(...): everyone in the channel but the calling socket.
ToRoom(rs, c, r) == Members(rs, r) \ {c}

(* ---- presence utility ------------------------------------------------ *)

Entry(u, c) == [id |-> u, socketId |-> c]

\* HSET key field value: one value per field.
HSet(h, u, e) == {x \in h : x.id # u} \cup {e}
\* HDEL key field
HDel(h, u) == {x \in h : x.id # u}

addUserToRoom(p, u, r, c) == [p EXCEPT ![r] = HSet(p[r], u, Entry(u, c))]

removeUserFromRoom(p, u, r) == [p EXCEPT ![r] = HDel(p[r], u)]

getUsersInRoom(p, r) == p[r]

isUserInRoom(p, u, r) == \E x \in p[r] : x.id = u

getUserRooms(p, u) == {r \in Rooms : \E x \in p[r] : x.id = u}

\* Rooms whose entry for u is removed by cleanupUserPresence(u, c).
CleanupRemoves(p, u, c) ==
  {r \in getUserRooms(p, u) : \E x \in p[r] : x.id = u /\ x.socketId = c}

cleanupUserPresence(p, u, c) ==
  [r \in Rooms |-> IF r \in CleanupRemoves(p, u, c) THEN HDel(p[r], u) ELSE p[r]]

(* ---- plan limits ----------------------------------------------------- *)

maxParticipants(plan) ==
  CASE plan = "FREE" -> FreeMaxParticipants
    [] plan = "PRO" -> ProMaxParticipants
    [] plan = "TEAMS" -> TeamsMaxParticipants
    [] OTHER -> FreeMaxParticipants

canAddParticipant(currentCount, plan) ==
  IF maxParticipants(plan) = -1 THEN TRUE
  ELSE ~(currentCount >= maxParticipants(plan))

Max(a, b) == IF a >= b THEN a ELSE b

(* ---- Room Coordinator: socket handlers ------------------------------- *)

NoTally == [d \in Conns |-> 0]

\* had: the identity had an entry in the room before the step; was: the
\* connection was in the room's channel before the step.
Last(op, c, r, res, had, removed) ==
  [op |-> op, conn |-> c, room |-> r, res |-> res, had |-> had, removed |-> removed,
   was |-> (c \in Conns /\ r \in Rooms /\ r \in rooms[c]), tally |-> NoTally,
   fault |-> "none", users |-> {}, target |-> None]

\* A reconnection handled as a first join: announced with user-joined.
JoinReconnect_announced(c, r) ==
  LET u == userOf(c) IN
  /\ out' = { Emit("room-joined", {c}, r, u),
              Emit("user-joined", ToRoom(rooms, c, r), r, u) }
  /\ UNCHANGED roomVars

\* join-room, reconnection branch: the identity already has an entry.
JoinReconnect(c, r) ==
  LET u == userOf(c) IN
  /\ out' = { Emit("room-joined", {c}, r, u),
              Emit("user-restored", ToRoom(rooms, c, r), r, u) }
  /\ UNCHANGED roomVars

\* join-room, "leave current room if any": channel left, entry removed, user-left.
JoinLeftRooms(c) ==
  IF currentRoom[c] # None
  THEN [rooms EXCEPT ![c] = @ \ {currentRoom[c]}]
  ELSE rooms

JoinLeftPresence(c) ==
  IF currentRoom[c] # None
  THEN removeUserFromRoom(presence, userOf(c), currentRoom[c])
  ELSE presence

JoinLeftEmits(c) ==
  IF currentRoom[c] # None
  THEN { Emit("user-left", ToRoom(JoinLeftRooms(c), c, currentRoom[c]),
              currentRoom[c], userOf(c)) }
  ELSE {}

\* Occupancy the limit check uses: the larger of presence and participant list.
currentParticipantCount(p, r) ==
  Max(Cardinality(getUsersInRoom(p, r)), Cardinality(participants[r]))

JoinAllowed(c, r) ==
  canAddParticipant(currentParticipantCount(JoinLeftPresence(c), r),
                    planOf(ownerOf(r)))

\* What can go wrong while a join-room is handled: payload without data or
\* room id, Room.findById returning null, User.findById returning null, one
\* of the two throwing, the presence store refusing the write, and
\* Whiteboard.findOne throwing.
JoinFaults == {"none", "no-data", "no-room-id", "no-room", "no-owner",
               "limit-throws", "store-down", "wb-throws"}
InputFaults == {"no-data", "no-room-id"}
LookupFaults == {"no-room", "no-owner", "limit-throws"}

InputCode(f) == IF f = "no-data" THEN "INVALID_DATA" ELSE "INVALID_ROOM_ID"

LimitCode(f) ==
  CASE f = "no-room" -> "ROOM_NOT_FOUND"
    [] f = "no-owner" -> "OWNER_NOT_FOUND"
    [] f = "limit-throws" -> "LIMIT_CHECK_FAILED"
    [] OTHER -> "PARTICIPANT_LIMIT"

\* A join error announced to the whole room.
JoinErrorReply_toRoom(c, r, u, code) ==
  { Emit("room:join-error:" \o code, Members(rooms, r) \cup {c}, r, u) }

\* socket.emit("room:join-error", {code, ...})
JoinErrorReply(c, r, u, code) ==
  { Emit("room:join-error:" \o code, {c}, r, u) }

\* The outer catch of the join-room handler.
JoinCatch(c, r, u) == { Emit("error:JOIN_ROOM_ERROR", {c}, r, u) }

\* addUserToRoom when the store refuses the write: the error is logged and
\* swallowed.
addUserToRoomFailed(p, u, r, c) == p

\* roomSchema.methods.hasAccess; r2 is the public room.
isPublic(r) == r = "r2"
hasAccess(u, r) == ownerOf(r) = u \/ u \in participants[r] \/ isPublic(r)

\* join-room under fault f.
JoinRoomF(c, r, f) ==
  LET u == userOf(c)
      had == \E x \in presence[r] : x.id = u
      rs1 == JoinLeftRooms(c)
      p1 == JoinLeftPresence(c)
      rs2 == [rs1 EXCEPT ![c] = @ \cup {r}]
      L(res) == [Last("join-room", c, r, res, had, {}) EXCEPT !.fault = f]
  IN
  /\ conn[c] = "open"
  /\ IF f \in InputFaults
     THEN /\ out' = { Emit("error:" \o InputCode(f), {c}, r, u) }
          /\ last' = L(InputCode(f))
          /\ UNCHANGED roomVars
     ELSE IF isUserInRoom(presence, u, r)
     THEN /\ f \in {"none", "wb-throws"}
          /\ IF f = "wb-throws"
             THEN /\ out' = JoinCatch(c, r, u)
                  /\ UNCHANGED roomVars
             ELSE JoinReconnect(c, r)
          /\ last' = L(IF f = "wb-throws" THEN "JOIN_ROOM_ERROR" ELSE "reconnected")
     ELSE IF f \in LookupFaults \/ ~JoinAllowed(c, r)
     THEN /\ f \in LookupFaults \cup {"none"}
          /\ rooms' = rs1
          /\ presence' = p1
          /\ out' = JoinLeftEmits(c) \cup JoinErrorReply(c, r, u, LimitCode(f))
          /\ last' = L(LimitCode(f))
          /\ UNCHANGED <<currentRoom, disconnectingRooms, conn, participants, leftRecv>>
     ELSE /\ f \in {"none", "store-down", "wb-throws"}
          /\ rooms' = rs2
          /\ currentRoom' = [currentRoom EXCEPT ![c] = r]
          /\ presence' = IF f = "store-down"
                         THEN addUserToRoomFailed(p1, u, r, c)
                         ELSE addUserToRoom(p1, u, r, c)
          /\ out' = JoinLeftEmits(c) \cup
                      (IF f = "wb-throws"
                       THEN JoinCatch(c, r, u)
                       ELSE { Emit("user-joined", ToRoom(rs2, c, r), r, u),
                              Emit("user-online", ToRoom(rs2, c, r), r, u),
                              Emit("room-joined", {c}, r, u) })
          /\ last' = L(IF f = "wb-throws" THEN "JOIN_ROOM_ERROR" ELSE "joined")
          /\ UNCHANGED <<disconnectingRooms, conn, participants, leftRecv>>

\* join-room with every lookup and store call succeeding.
JoinRoom(c, r) == JoinRoomF(c, r, "none")

(* ---- join-room split at its awaited presence read --------------------- *)

NoJoin == [pc |-> "idle", room |-> None, count |-> 0]

\* join-room up to the return of getUsersInRoom in the limit check: the
\* reconnection test, "leave current room if any", and the occupancy read.
JoinRead(c, r) ==
  LET u == userOf(c)
      had == \E x \in presence[r] : x.id = u
      p1 == JoinLeftPresence(c)
  IN
  /\ conn[c] = "open"
  /\ joining[c].pc = "idle"
  /\ IF isUserInRoom(presence, u, r)
     THEN /\ JoinReconnect(c, r)
          /\ last' = Last("join-room", c, r, "reconnected", had, {})
     ELSE /\ rooms' = JoinLeftRooms(c)
          /\ presence' = p1
          /\ joining' = [joining EXCEPT ![c] =
                           [pc |-> "add", room |-> r,
                            count |-> currentParticipantCount(p1, r)]]
          /\ out' = JoinLeftEmits(c)
          /\ last' = Last("join-room", c, r, "awaiting", had, {})
          /\ UNCHANGED <<currentRoom, disconnectingRooms, conn, participants,
                         leftRecv, refresh, messages>>

\* join-room from the limit decision on: the count read earlier is compared
\* with the owner's plan, then socket.join, currentRoom and addUserToRoom.
\* The continuation runs whether or not the socket has disconnected since.
JoinAdd(c) ==
  LET u == userOf(c)
      t == joining[c]
      r == t.room
      rs2 == [rooms EXCEPT ![c] = @ \cup {r}]
  IN
  /\ t.pc = "add"
  /\ joining' = [joining EXCEPT ![c] = NoJoin]
  /\ IF ~canAddParticipant(t.count, planOf(ownerOf(r)))
     THEN /\ out' = JoinErrorReply(c, r, u, "PARTICIPANT_LIMIT")
          /\ last' = Last("join-room", c, r, "PARTICIPANT_LIMIT", FALSE, {})
          /\ UNCHANGED <<presence, rooms, currentRoom>>
     ELSE /\ rooms' = rs2
          /\ currentRoom' = [currentRoom EXCEPT ![c] = r]
          /\ presence' = addUserToRoom(presence, u, r, c)
          /\ out' = { Emit("user-joined", ToRoom(rs2, c, r), r, u),
                      Emit("user-online", ToRoom(rs2, c, r), r, u),
                      Emit("room-joined", {c}, r, u) }
          /\ last' = Last("join-room", c, r, "joined", FALSE, {})
  /\ UNCHANGED <<disconnectingRooms, conn, participants, leftRecv, refresh, messages>>

(* ---- activity refresh ------------------------------------------------ *)

NoRefresh == [pc |-> "idle", room |-> None, data |-> Entry(None, None)]

\* updateUserActivity, up to its hGet: the stored entries of the identity.
updateUserActivityRead(p, u, r) == {x \in p[r] : x.id = u}

\* updateUserActivity, its hSet of the entry read earlier.
updateUserActivityWrite(p, r, e) == [p EXCEPT ![r] = HSet(@, e.id, e)]

\* heartbeat: updateUserActivity's hGet returns; without a current room or
\* without an entry the acknowledgment follows at once.
HeartbeatRead(c) ==
  LET u == userOf(c)
      r == currentRoom[c]
      found == IF r = None THEN {} ELSE updateUserActivityRead(presence, u, r)
  IN
  /\ conn[c] = "open"
  /\ refresh[c].pc = "idle"
  /\ IF found = {}
     THEN /\ out' = { Emit("heartbeat-ack", {c}, r, u) }
          /\ last' = Last("heartbeat", c, r, "ack", FALSE, {})
          /\ UNCHANGED refresh
     ELSE /\ refresh' = [refresh EXCEPT ![c] =
                           [pc |-> "write", room |-> r, data |-> CHOOSE x \in found : TRUE]]
          /\ out' = {}
          /\ last' = Last("heartbeat", c, r, "read", TRUE, {})
  /\ UNCHANGED <<presence, rooms, currentRoom, disconnectingRooms, conn,
                 participants, leftRecv>>

\* heartbeat: updateUserActivity's hSet returns, then the acknowledgment.
HeartbeatWrite(c) ==
  LET u == userOf(c)
      t == refresh[c]
      had == \E x \in presence[t.room] : x.id = u
  IN
  /\ t.pc = "write"
  /\ presence' = updateUserActivityWrite(presence, t.room, t.data)
  /\ refresh' = [refresh EXCEPT ![c] = NoRefresh]
  /\ out' = { Emit("heartbeat-ack", {c}, t.room, u) }
  /\ last' = Last("heartbeat", c, t.room, "refreshed", had, {})
  /\ UNCHANGED <<rooms, currentRoom, disconnectingRooms, conn, participants, leftRecv>>

\* The member list a user-left carried before the entry was removed.
LeaveUsers_stale(p, u, r) == getUsersInRoom(p, r)

\* updatedUserList of leave-room's user-left: getUsersInRoom after
\* removeUserFromRoom.
LeaveUsers(p, u, r) == getUsersInRoom(removeUserFromRoom(p, u, r), r)

LeaveRoom(c, r) ==
  LET u == userOf(c)
      had == \E x \in presence[r] : x.id = u
      rs1 == [rooms EXCEPT ![c] = @ \ {r}]
  IN
  /\ conn[c] = "open"
  /\ IF ~isUserInRoom(presence, u, r)
     THEN /\ out' = { Emit("error:NOT_IN_ROOM", {c}, r, u) }
          /\ last' = Last("leave-room", c, r, "NOT_IN_ROOM", had, {})
          /\ UNCHANGED roomVars
     ELSE /\ presence' = removeUserFromRoom(presence, u, r)
          /\ rooms' = rs1
          /\ currentRoom' = [currentRoom EXCEPT ![c] = None]
          /\ out' = { Emit("user-left", ToRoom(rs1, c, r), r, u),
                      Emit("user-offline", ToRoom(rs1, c, r), r, u),
                      Emit("room-left", {c}, r, u) }
          /\ last' = [Last("leave-room", c, r, "left", had,
                           {[room |-> r, entry |-> x] : x \in {y \in presence[r] : y.id = u}})
                        EXCEPT !.users = LeaveUsers(presence, u, r)]
          /\ UNCHANGED <<disconnectingRooms, conn, participants, leftRecv>>

\* Deliveries of user-left among a set of emissions, added to a tally per recipient.
CountLeft(tally, emits) ==
  [d \in Conns |-> tally[d] + Cardinality({e \in emits : e.ev = "user-left" /\ d \in e.to})]

\* Entries of identity u in the rooms rs, as (room, entry) pairs.
EntriesIn(p, u, rs) ==
  UNION {{[room |-> r, entry |-> x] : x \in {y \in p[r] : y.id = u}} : r \in rs}

\* registerRoomHandlers' disconnect handler: the entry in currentRoom goes.
RoomDisconnectPresence(c) ==
  IF currentRoom[c] # None
  THEN removeUserFromRoom(presence, userOf(c), currentRoom[c])
  ELSE presence

RoomDisconnectEmits(c, rs) ==
  IF currentRoom[c] # None
  THEN { Emit("user-offline", ToRoom(rs, c, currentRoom[c]), currentRoom[c], userOf(c)),
         Emit("user-left", ToRoom(rs, c, currentRoom[c]), currentRoom[c], userOf(c)) }
  ELSE {}

\* Transport disconnect: 'disconnecting' captures the rooms, the socket leaves
\* them, and the 'disconnect' handlers start; the room handler's HDEL is the
\* first presence write to reach the store.
Disconnect(c) ==
  LET rs1 == [rooms EXCEPT ![c] = {}]
      emits == RoomDisconnectEmits(c, rs1)
  IN
  /\ conn[c] = "open"
  /\ disconnectingRooms' = [disconnectingRooms EXCEPT ![c] = rooms[c]]
  /\ rooms' = rs1
  /\ presence' = RoomDisconnectPresence(c)
  /\ conn' = [conn EXCEPT ![c] = "cleanup"]
  /\ out' = emits
  /\ leftRecv' = [leftRecv EXCEPT ![c] = CountLeft(@, emits)]
  /\ last' = Last("disconnect", c, currentRoom[c], "room-handler",
                  currentRoom[c] # None,
                  IF currentRoom[c] # None
                  THEN EntriesIn(presence, userOf(c), {currentRoom[c]})
                  ELSE {})
  /\ UNCHANGED <<currentRoom, participants>>

\* registerConnectionHandlers' disconnect handler.
ConnDisconnectEmits(c) ==
  { Emit("user-left", ToRoom(rooms, c, r), r, userOf(c)) :
      r \in disconnectingRooms[c] \cup getUserRooms(presence, userOf(c)) }

DisconnectCleanup(c) ==
  LET u == userOf(c)
      emits == ConnDisconnectEmits(c)
  IN
  /\ conn[c] = "cleanup"
  /\ presence' = cleanupUserPresence(presence, u, c)
  /\ conn' = [conn EXCEPT ![c] = "closed"]
  /\ out' = emits
  /\ last' = [Last("disconnect", c, None, "connection-handler", TRUE,
                    {x \in EntriesIn(presence, u, Rooms) :
                       x \notin EntriesIn(presence', u, Rooms)})
                 EXCEPT !.tally = CountLeft(leftRecv[c], emits)]
  \* the socket is gone: its data and the tally of its disconnect are dropped
  /\ leftRecv' = [leftRecv EXCEPT ![c] = NoTally]
  /\ disconnectingRooms' = [disconnectingRooms EXCEPT ![c] = {}]
  /\ currentRoom' = [currentRoom EXCEPT ![c] = None]
  /\ UNCHANGED <<rooms, participants>>

(* ---- Room membership over HTTP --------------------------------------- *)

\* POST /api/rooms/:id/join with the room's invite code.
HttpJoinRoom(u, r) ==
  /\ u \notin participants[r]
  /\ ~(Cardinality(participants[r]) >= RoomMaxParticipantsDefault)
  /\ canAddParticipant(Cardinality(participants[r]), planOf(ownerOf(r)))
  /\ participants' = [participants EXCEPT ![r] = @ \cup {u}]
  /\ out' = {}
  /\ last' = Last("http-join", None, r, "added", FALSE, {})
  /\ UNCHANGED <<presence, rooms, currentRoom, disconnectingRooms, conn, leftRecv>>

(* ---- WebRTC signalling (webrtc.handler) ------------------------------ *)

CallLimitFree == 2
CallLimitPro == 10
CallLimitTeams == 999

getParticipantLimit(plan) ==
  CASE plan = "FREE" -> CallLimitFree
    [] plan = "PRO" -> CallLimitPro
    [] plan = "TEAMS" -> CallLimitTeams
    [] OTHER -> CallLimitFree

\* findTargetSocket: the sockets of room r's channel whose identity is the
\* target; the function returns the first of them in the channel's order.
findTargetSocket(rs, r, tgt) == {d \in Members(rs, r) : userOf(d) = tgt}

Signals == {"webrtc-offer", "webrtc-answer", "webrtc-ice-candidate"}

\* A signalling message handed to the room's channel.
SignalTo_room(t, r) == Members(rooms, r)

\* io.to(targetSocketId)
SignalTo(t, r) == {t}

\* The checks before the target socket is looked up: "" when they pass.
SignalRefusal(ev, u, r, tgt) ==
  IF ev = "webrtc-ice-candidate" THEN ""
  ELSE IF ~isUserInRoom(presence, u, r) THEN "NOT_IN_ROOM"
  ELSE IF ev = "webrtc-offer" /\ ~isUserInRoom(presence, tgt, r) THEN "INVALID_TARGET"
  ELSE ""

\* webrtc-offer, webrtc-answer, webrtc-ice-candidate
Signal(c, ev, r, tgt) ==
  LET u == userOf(c)
      refusal == SignalRefusal(ev, u, r, tgt)
      cands == findTargetSocket(rooms, r, tgt)
      L(res) == [Last(ev, c, r, res, FALSE, {}) EXCEPT !.target = tgt]
  IN
  /\ conn[c] = "open"
  /\ IF refusal # ""
     THEN /\ out' = { Emit("error:" \o refusal, {c}, r, u) }
          /\ last' = L(refusal)
     ELSE IF cands = {}
     THEN /\ out' = IF ev = "webrtc-ice-candidate" THEN {}
                    ELSE { Emit("error:USER_NOT_FOUND", {c}, r, u) }
          /\ last' = L("USER_NOT_FOUND")
     ELSE \E t \in cands :
            /\ out' = { Emit(ev, SignalTo(t, r), r, u) }
            /\ last' = L("forwarded")
  /\ UNCHANGED roomVars

\* call-user; tgt is None for a group call.
CallUser(c, r, tgt) ==
  LET u == userOf(c)
      currentUsers == getUsersInRoom(presence, r)
      participantLimit == getParticipantLimit(planOf(u))
      cands == findTargetSocket(rooms, r, tgt)
      L(res) == [Last("call-user", c, r, res, FALSE, {}) EXCEPT
                   !.target = tgt, !.users = currentUsers]
  IN
  /\ conn[c] = "open"
  /\ IF Cardinality(currentUsers) >= participantLimit
     THEN /\ out' = { Emit("participant-limit-reached", {c}, r, u) }
          /\ last' = L("participant-limit-reached")
     ELSE IF tgt = None
     THEN /\ out' = { Emit("call-started", ToRoom(rooms, c, r), r, u) }
          /\ last' = L("started")
     ELSE IF cands = {}
     THEN /\ out' = {}
          /\ last' = L("started")
     ELSE \E t \in cands :
            /\ out' = { Emit("call-started", {t}, r, u) }
            /\ last' = L("started")
  /\ UNCHANGED roomVars

(* ---- chat (ChatHandler) ---------------------------------------------- *)

MaxMessages == 2

\* The channel of a room's chat.
ChatChannel(r) == "chat:" \o r

\* chat:join: the connection enters the chat channel and is sent the history.
ChatJoin(c, r) ==
  /\ conn[c] = "open"
  /\ rooms' = [rooms EXCEPT ![c] = @ \cup {ChatChannel(r)}]
  /\ out' = { Emit("chat:history", {c}, r, userOf(c)) }
  /\ last' = Last("chat:join", c, r, "joined", FALSE, {})
  /\ UNCHANGED <<presence, currentRoom, disconnectingRooms, conn, participants,
                 leftRecv, refresh, messages, joining>>

\* chat:leave
ChatLeave(c, r) ==
  /\ conn[c] = "open"
  /\ rooms' = [rooms EXCEPT ![c] = @ \ {ChatChannel(r)}]
  /\ out' = {}
  /\ last' = Last("chat:leave", c, r, "left", FALSE, {})
  /\ UNCHANGED <<presence, currentRoom, disconnectingRooms, conn, participants,
                 leftRecv, refresh, messages, joining>>

\* this.io.to(`chat:${roomId}`)
ChatRecipients(c, r) == Members(rooms, ChatChannel(r))

\* chat:message: the message is saved and emitted to the chat channel, or
\* the save throws and the sender is sent chat:error.
ChatMessage(c, r, saved) ==
  LET u == userOf(c) IN
  /\ conn[c] = "open"
  /\ Len(messages[r]) < MaxMessages
  /\ IF saved
     THEN /\ messages' = [messages EXCEPT ![r] = Append(@, u)]
          /\ out' = { Emit("chat:message", ChatRecipients(c, r), r, u) }
          /\ last' = Last("chat:message", c, r, "persisted", FALSE, {})
     ELSE /\ out' = { Emit("chat:error", {c}, r, u) }
          /\ last' = Last("chat:message", c, r, "save-failed", FALSE, {})
          /\ UNCHANGED messages
  /\ UNCHANGED <<presence, rooms, currentRoom, disconnectingRooms, conn,
                 participants, leftRecv, refresh, joining>>

(* ---- Whiteboard document store (Whiteboard model, mongoose) ---------- *)

\* An element is opaque but for its id; rev stands for the rest of its payload.
ElemIds == {"e1", "e2"}
Elements == [id : ElemIds, rev : {0, 1}]
StickyElement == [id |-> "sticky-note", rev |-> 0]

\* appState stands for the pair (appState, files): the handlers assign and
\* the pre-save hook tests the two together.
AppStates == {"a0", "a1"}

SnapshotThreshold == 10
SnapshotCap == 50
UpdateIntervalMs == 100
CursorIntervalMs == 50

\* The persisted document of a room; exists = FALSE before the first insert.
NoDoc ==
  [exists |-> FALSE, elements |-> <<>>, appState |-> "a0", version |-> 0,
   vkey |-> 0, lastModifiedBy |-> None, snapshots |-> <<>>]

\* A mongoose document held by a handler: the fields, and which paths are
\* modified.  emod: "none", "set" (array assigned), "push", "index" (one
\* position assigned, at idx).  base: the version loaded.
Loaded(d) ==
  [isNew |-> FALSE, elements |-> d.elements, appState |-> d.appState,
   version |-> d.version, vkey |-> d.vkey, lastModifiedBy |-> d.lastModifiedBy,
   snapshots |-> d.snapshots, base |-> d.version,
   emod |-> "none", idx |-> 0, modA |-> FALSE, snapped |-> FALSE, sset |-> FALSE]

\* new Whiteboard({roomId, elements: [], appState: {}, files: {}, version: v}):
\* paths given to the constructor count as modified.
NewDoc(v, u) ==
  [isNew |-> TRUE, elements |-> <<>>, appState |-> "a0",
   version |-> v, vkey |-> 0, lastModifiedBy |-> u,
   snapshots |-> <<>>, base |-> v,
   emod |-> "set", idx |-> 0, modA |-> TRUE, snapped |-> FALSE, sset |-> FALSE]

\* doc.elements = els: marks the path only when the value differs.
SetElements(m, els) ==
  IF els = m.elements /\ ~m.isNew THEN m
  ELSE [m EXCEPT !.elements = els, !.emod = "set"]

SetAppState(m, a) ==
  IF a = m.appState /\ ~m.isNew THEN m
  ELSE [m EXCEPT !.appState = a, !.modA = TRUE]

\* doc.elements.push(e)
PushElement(m, e) ==
  [m EXCEPT !.elements = Append(@, e),
            !.emod = IF @ = "none" THEN "push" ELSE "set"]

\* doc.elements[i] = e
SetElementAt(m, i, e) ==
  [m EXCEPT !.elements[i] = e,
            !.idx = i,
            !.emod = IF @ = "none" THEN "index" ELSE "set"]

BumpVersion(m, u) == [m EXCEPT !.version = @ + 1, !.lastModifiedBy = u]

LastN(sq, n) == IF Len(sq) > n THEN SubSeq(sq, Len(sq) - n + 1, Len(sq)) ELSE sq

Snapshot(m) ==
  [elements |-> m.elements, appState |-> m.appState,
   userId |-> m.lastModifiedBy, version |-> m.version]

\* WhiteboardSchema.pre('save')
PreSave(m) ==
  IF m.emod # "none" \/ m.modA
  THEN LET m1 == [m EXCEPT !.version = @ + 1] IN
       IF m1.emod # "none" /\ Len(m1.elements) > SnapshotThreshold
       THEN [m1 EXCEPT !.snapshots = LastN(Append(@, Snapshot(m1)), SnapshotCap),
                       !.snapped = TRUE,
                       !.sset = (Len(m1.snapshots) + 1 > SnapshotCap)]
       ELSE m1
  ELSE m

IndexOf(els, id) ==
  IF \E i \in 1..Len(els) : els[i].id = id
  THEN CHOOSE i \in 1..Len(els) :
         els[i].id = id /\ \A j \in 1..(i - 1) : els[j].id # id
  ELSE 0

RECURSIVE Without(_, _)
Without(els, id) ==
  IF els = <<>> THEN <<>>
  ELSE IF Head(els).id = id THEN Without(Tail(els), id)
  ELSE <<Head(els)>> \o Without(Tail(els), id)

\* save() of a loaded document is refused (VersionError) when it assigns an
\* array (elements, or the snapshots cut to the cap) or an array position and
\* the stored __v is no longer the loaded one.
VersionConflict(db, m) ==
  ~m.isNew /\ (m.emod \in {"set", "index"} \/ m.sset) /\ db.vkey # m.vkey

\* The stored document after save() of m (m after the pre-save hook): only
\* modified paths are written; a push (of an element, of a snapshot) is
\* sent as $push; an array write increments __v.  A second insert for a room leaves the document that
\* findOne({roomId}) returns as it is.
Persist(db, m) ==
  IF m.isNew
  THEN IF db.exists THEN db
       ELSE [exists |-> TRUE, elements |-> m.elements, appState |-> m.appState,
             version |-> m.version, vkey |-> 0,
             lastModifiedBy |-> m.lastModifiedBy, snapshots |-> m.snapshots]
  ELSE [db EXCEPT
          !.elements =
             CASE m.emod = "set" -> m.elements
               [] m.emod = "push" -> Append(@, m.elements[Len(m.elements)])
               [] m.emod = "index" -> [@ EXCEPT ![m.idx] = m.elements[m.idx]]
               [] OTHER -> @,
          !.appState = IF m.modA THEN m.appState ELSE @,
          !.version = IF m.version # m.base THEN m.version ELSE @,
          !.lastModifiedBy = m.lastModifiedBy,
          !.snapshots = IF m.sset THEN m.snapshots
                        ELSE IF m.snapped
                        THEN Append(@, m.snapshots[Len(m.snapshots)])
                        ELSE @,
          !.vkey = IF m.emod \in {"set", "push"} \/ m.snapped THEN @ + 1 ELSE @]

\* Whiteboard.create({roomId, elements: [], appState: {}, files: {}, version: 1, ...})
Created(u) == Persist(NoDoc, PreSave(NewDoc(1, u)))

(* ---- Whiteboard Synchronisation Engine: socket handlers -------------- *)

TimeStart == 1000
TickMs == 50
MaxTime == 1100
MaxRecv == 2
MaxElems == 2
MaxInFlight == 2

\* The room whose whiteboard the clients address.
WbRooms == {"r1"}
\* The connections that send cursor-move: a member of r1 and a non-member.
CursorConns == {"c1", "c2"}

CheckedOps == {"whiteboard-update", "element-create", "element-update",
               "element-delete", "whiteboard-load"}
WriteOps == {"whiteboard-update", "element-create", "element-update",
             "element-delete"}
WbOps == CheckedOps \cup {"sticky-note:create"}

El(id, rev) == [id |-> id, rev |-> rev]
NoPay == [elements |-> <<>>, appState |-> "a0", element |-> El("e1", 0), id |-> "e1"]

\* The payloads a client sends with each event.
Payloads(op) ==
  CASE op = "whiteboard-update" ->
         { [NoPay EXCEPT !.elements = els, !.appState = a] :
             els \in {<<>>, <<El("e1", 0)>>},
             a \in AppStates }
    [] op = "element-create" ->
         { [NoPay EXCEPT !.element = El("e1", 0)] }
    [] op = "element-update" ->
         { [NoPay EXCEPT !.element = El(id, 1)] : id \in ElemIds }
    [] op = "element-delete" ->
         { [NoPay EXCEPT !.id = id] : id \in ElemIds }
    [] OTHER -> {NoPay}

NoOverlap == [conn |-> None, op |-> None, bver |-> 0]
IdleTask ==
  [pc |-> "idle", op |-> None, room |-> None, pay |-> NoPay, seq |-> 0,
   at |-> 0, mem |-> Loaded(NoDoc), ov |-> NoOverlap, absent |-> FALSE,
   nodoc |-> FALSE]

NoBcast == [seq |-> 0, ver |-> 0, conn |-> None, op |-> None]

\* A throttle key that leaves the identity out.
RateKey_perRoom(prefix, u, r) == <<prefix, "u1", r>>

RateKey(prefix, u, r) == <<prefix, u, r>>
RateKeys == {"", "cursor-"} \X Users \X Rooms

WEmit(ev, to, r, u, v) == [ev |-> ev, to |-> to, room |-> r, user |-> u, version |-> v]

WNone ==
  [op |-> None, conn |-> None, room |-> None, res |-> "init", member |-> FALSE,
   base |-> 0, before |-> 0, after |-> 0, changed |-> FALSE, bver |-> 0, seq |-> 0,
   prevSeq |-> 0, at |-> 0, prevAt |-> 0, ov |-> NoOverlap, absent |-> FALSE,
   nodoc |-> FALSE]

\* The record kept of a handler step of connection c that ends the handler;
\* WNone after any other step.
WStep(c, op, r, res) ==
  [WNone EXCEPT !.op = op, !.conn = c, !.room = r, !.res = res,
                !.member = (r \in rooms[c])]

BroadcastName(op) ==
  CASE op = "whiteboard-update" -> "whiteboard-updated"
    [] op = "element-create" -> "element-created"
    [] op = "element-update" -> "element-updated"
    [] op = "element-delete" -> "element-deleted"
    [] OTHER -> "sticky-note:created"

ErrorCode(op) ==
  CASE op = "whiteboard-update" -> "WHITEBOARD_UPDATE_ERROR"
    [] op = "element-create" -> "ELEMENT_CREATE_ERROR"
    [] op = "element-update" -> "ELEMENT_UPDATE_ERROR"
    [] op = "element-delete" -> "ELEMENT_DELETE_ERROR"
    [] OTHER -> "STICKY_NOTE_CREATE_FAILED"

\* checkWhiteboardAccess, up to its awaited findOne: the synchronous test of
\* socket.rooms.  sticky-note:create starts its findOne without that test.
WbRecv(c, op, r, pay) ==
  /\ conn[c] = "open"
  /\ task[c].pc = "idle"
  /\ recvSeq < MaxRecv
  /\ Cardinality({d \in Conns : task[d].pc # "idle"}) < MaxInFlight
  /\ pay \in Payloads(op)
  /\ op \in {"element-create", "sticky-note:create"} => Len(wb[r].elements) < MaxElems
  /\ IF op \in CheckedOps /\ r \notin rooms[c]
     THEN /\ out' = { WEmit("error:ACCESS_DENIED", {c}, r, userOf(c), 0) }
          /\ last' = WStep(c, op, r, "ACCESS_DENIED")
          /\ UNCHANGED <<task, recvSeq>>
     ELSE /\ task' = [task EXCEPT ![c] =
                        [IdleTask EXCEPT
                           !.pc = IF op = "sticky-note:create" THEN "find" ELSE "access",
                           !.op = op, !.room = r, !.pay = pay, !.seq = recvSeq + 1]]
          /\ recvSeq' = recvSeq + 1
          /\ out' = {}
          /\ last' = WNone
  /\ UNCHANGED <<wb, now, updateRateLimit, lastBcast, accAt, roomVars, rlVars>>

\* checkWhiteboardAccess returns true; whiteboard-update then applies its
\* minimum interval; the handler starts its own findOne.
WbAccess(c) ==
  LET t == task[c]
      u == userOf(c)
      k == RateKey("", u, t.room)
  IN
  /\ t.pc = "access"
  /\ IF t.op = "whiteboard-update" /\ now - updateRateLimit[k] < UpdateIntervalMs
     THEN /\ task' = [task EXCEPT ![c] = IdleTask]
          /\ out' = { WEmit("error:RATE_LIMIT_ERROR", {c}, t.room, u, 0) }
          /\ last' = [WStep(c, t.op, t.room, "RATE_LIMIT_ERROR") EXCEPT
                        !.seq = t.seq, !.at = now, !.prevAt = accAt[<<u, t.room>>]]
          /\ UNCHANGED updateRateLimit
     ELSE /\ task' = [task EXCEPT ![c].pc = "find", ![c].at = now]
          /\ updateRateLimit' = IF t.op = "whiteboard-update"
                                THEN [updateRateLimit EXCEPT ![k] = now]
                                ELSE updateRateLimit
          /\ out' = {}
          /\ last' = WNone
  /\ UNCHANGED <<wb, now, recvSeq, lastBcast, accAt, roomVars, rlVars>>

\* The document the handler holds once its findOne returned, after the
\* handler's assignments (d: the stored document, or the one just created).
Mutated(op, pay, u, d) ==
  LET m == Loaded(d) IN
  CASE op = "whiteboard-update" ->
         BumpVersion(SetAppState(SetElements(m, pay.elements), pay.appState), u)
    [] op = "element-create" -> BumpVersion(PushElement(m, pay.element), u)
    [] op = "element-update" ->
         BumpVersion(SetElementAt(m, IndexOf(d.elements, pay.element.id), pay.element), u)
    [] op = "element-delete" ->
         BumpVersion(SetElements(m, Without(d.elements, pay.id)), u)
    [] OTHER -> PushElement(IF d.exists THEN m ELSE NewDoc(0, None), StickyElement)

\* The handler's findOne returns.  whiteboard-update creates a missing
\* document; the element handlers do nothing without one, element-update
\* nothing without the element; whiteboard-load answers the caller.
WbFind(c) ==
  LET t == task[c]
      u == userOf(c)
      r == t.room
      d == wb[r]
      d1 == IF t.op = "whiteboard-update" /\ ~d.exists THEN Created(u) ELSE d
      skip == \/ t.op \in {"element-create", "element-update", "element-delete"} /\ ~d.exists
              \/ t.op = "element-update" /\ IndexOf(d.elements, t.pay.element.id) = 0
      \* the handler found a document without the element it names
      absent == /\ d.exists
                /\ \/ t.op = "element-update" /\ IndexOf(d.elements, t.pay.element.id) = 0
                   \/ t.op = "element-delete" /\ IndexOf(d.elements, t.pay.id) = 0
  IN
  /\ t.pc = "find"
  /\ wb' = [wb EXCEPT ![r] = d1]
  /\ IF t.op = "whiteboard-load"
     THEN /\ task' = [task EXCEPT ![c] = IdleTask]
          /\ out' = { WEmit("whiteboard-loaded", {c}, r, u, d.version) }
          /\ last' = [WStep(c, t.op, r, "loaded") EXCEPT !.seq = t.seq]
     ELSE IF skip
     THEN /\ task' = [task EXCEPT ![c] = IdleTask]
          /\ out' = {}
          /\ last' = [WStep(c, t.op, r, "nothing-done") EXCEPT
                        !.seq = t.seq, !.absent = absent, !.nodoc = ~d.exists]
     ELSE /\ task' = [task EXCEPT ![c].pc = "save",
                                  ![c].mem = Mutated(t.op, t.pay, u, d1),
                                  ![c].absent = absent, ![c].nodoc = ~d.exists]
          /\ out' = {}
          /\ last' = WNone
  /\ UNCHANGED <<now, updateRateLimit, recvSeq, lastBcast, accAt, roomVars, rlVars>>

\* Who a write is broadcast to: socket.to(room) for the whiteboard handlers,
\* io.to(room) for sticky-note:create.
\* A write broadcast with io.to(room): the sender included.
BroadcastTo_all(c, op, r) == Members(rooms, r)

BroadcastTo(c, op, r) ==
  IF op = "sticky-note:create" THEN Members(rooms, r) ELSE ToRoom(rooms, c, r)

\* await whiteboard.save() returns, or throws; then the broadcast.
WbStore(c) ==
  LET t == task[c]
      u == userOf(c)
      r == t.room
      m == PreSave(t.mem)
      d2 == Persist(wb[r], m)
      step == [WStep(c, t.op, r, "accepted") EXCEPT
                 !.seq = t.seq, !.at = t.at, !.prevAt = accAt[<<u, r>>],
                 !.base = t.mem.base, !.before = wb[r].version,
                 !.prevSeq = lastBcast[r].seq,
                 !.ov = t.ov, !.absent = t.absent, !.nodoc = t.nodoc]
  IN
  /\ t.pc = "save"
  /\ task' = [d \in Conns |->
                IF d = c THEN IdleTask
                ELSE IF task[d].pc = "save" /\ task[d].room = r
                        /\ ~VersionConflict(wb[r], m)
                     THEN [task[d] EXCEPT !.ov = [conn |-> c, op |-> t.op, bver |-> m.version]]
                     ELSE task[d]]
  /\ IF VersionConflict(wb[r], m)
     THEN /\ out' = { WEmit("error:" \o ErrorCode(t.op), {c}, r, u, 0) }
          /\ last' = [step EXCEPT !.res = "save-failed", !.after = wb[r].version]
          /\ UNCHANGED <<wb, lastBcast, accAt>>
     ELSE /\ wb' = [wb EXCEPT ![r] = d2]
          /\ out' = { WEmit(BroadcastName(t.op), BroadcastTo(c, t.op, r), r, u, m.version) }
          /\ lastBcast' = IF t.op \in WriteOps
                          THEN [lastBcast EXCEPT ![r] =
                                  [seq |-> t.seq, ver |-> m.version, conn |-> c, op |-> t.op]]
                          ELSE lastBcast
          /\ accAt' = IF t.op \in WriteOps
                      THEN [accAt EXCEPT ![<<u, r>>] = t.at]
                      ELSE accAt
          /\ last' = [step EXCEPT !.after = d2.version, !.changed = (d2 # wb[r]),
                                  !.bver = m.version]
  /\ UNCHANGED <<now, updateRateLimit, recvSeq, roomVars, rlVars>>

\* cursor-move: no test of socket.rooms, throttled silently, relayed.
CursorMove(c, r) ==
  LET u == userOf(c)
      k == RateKey("cursor-", u, r)
  IN
  /\ conn[c] = "open"
  /\ IF now - updateRateLimit[k] < CursorIntervalMs
     THEN /\ out' = {}
          /\ last' = [WStep(c, "cursor-move", r, "dropped") EXCEPT !.at = now]
          /\ UNCHANGED updateRateLimit
     ELSE /\ updateRateLimit' = [updateRateLimit EXCEPT ![k] = now]
          /\ out' = { WEmit("cursor-moved", ToRoom(rooms, c, r), r, u, 0) }
          /\ last' = [WStep(c, "cursor-move", r, "relayed") EXCEPT !.at = now]
  /\ UNCHANGED <<wb, task, now, recvSeq, lastBcast, accAt, roomVars, rlVars>>

\* Time passes.
WbTick ==
  /\ now < MaxTime
  /\ now' = now + TickMs
  /\ out' = {}
  /\ last' = WNone
  /\ UNCHANGED <<wbVars, roomVars, rlVars>>

(* ---- Whiteboard snapshots and restore -------------------------------- *)

MaxSnapVersion == 7
MaxOver == 2
BigLen == 11
MaxSnapReq == 5
PrefillGap == 1

\* whiteboard.snapshots.push(snapshot) in the snapshot route.
PushSnapshot(m, u) ==
  [m EXCEPT !.snapshots = Append(@, [Snapshot(m) EXCEPT !.userId = u]),
            !.snapped = TRUE]

\* Whiteboard.createSnapshot(roomId, elements, appState, files, userId):
\* findOne for the version, then findOneAndUpdate with $push, $slice: -50
\* and upsert.
createSnapshot(d, els, a, u) ==
  LET snap == [elements |-> els, appState |-> a, userId |-> u,
               version |-> (IF d.exists THEN d.version ELSE 0) + 1]
  IN [d EXCEPT !.exists = TRUE,
               !.snapshots = LastN(Append(@, snap), SnapshotCap)]

\* The restore route's assignments from the chosen snapshot.
Restored(m, snap, u) ==
  [SetAppState(SetElements(m, snap.elements), snap.appState) EXCEPT
     !.lastModifiedBy = u]

\* The record kept of an HTTP request of identity u.
HStep(u, op, r, res) ==
  [WNone EXCEPT !.op = op, !.conn = u, !.room = r, !.res = res]

SnapGuard(r) == Len(wb[r].snapshots) < SnapshotCap + MaxOver

\* Requests are counted as they are received.
Received == recvSeq < MaxSnapReq /\ recvSeq' = recvSeq + 1

\* POST /api/whiteboards/:roomId/snapshot
HttpSnapshot(u, r) ==
  LET d == wb[r]
      d2 == Persist(d, PreSave(PushSnapshot(Loaded(d), u)))
  IN
  /\ SnapGuard(r)
  /\ out' = {}
  /\ IF u \notin participants[r]
     THEN /\ last' = HStep(u, "snapshot", r, "403")
          /\ UNCHANGED wb
     ELSE IF ~d.exists
     THEN /\ last' = HStep(u, "snapshot", r, "404")
          /\ UNCHANGED wb
     ELSE /\ wb' = [wb EXCEPT ![r] = d2]
          /\ last' = [HStep(u, "snapshot", r, "200") EXCEPT
                        !.before = d.version, !.after = d2.version,
                        !.changed = (d2 # d)]
  /\ Received
  /\ UNCHANGED <<task, now, updateRateLimit, lastBcast, accAt, roomVars, rlVars>>

\* Whiteboard.createSnapshot called with the room's current content.
CreateSnapshotStatic(u, r) ==
  LET d == wb[r]
      d2 == createSnapshot(d, d.elements, d.appState, u)
  IN
  /\ SnapGuard(r)
  /\ wb' = [wb EXCEPT ![r] = d2]
  /\ out' = {}
  /\ last' = [HStep(u, "createSnapshot", r, "done") EXCEPT
                !.before = d.version, !.after = d2.version, !.changed = (d2 # d)]
  /\ Received
  /\ UNCHANGED <<task, now, updateRateLimit, lastBcast, accAt, roomVars, rlVars>>

\* POST /api/whiteboards/:roomId/restore/:snapshotId; i is the place of the
\* snapshot with that id in the list, 0 when no snapshot has it.
HttpRestore(u, r, i) ==
  LET d == wb[r]
      m == PreSave(Restored(Loaded(d), d.snapshots[i], u))
      d2 == Persist(d, m)
  IN
  /\ i \in 0..Len(d.snapshots)
  /\ d.version < MaxSnapVersion
  /\ IF u # ownerOf(r)
     THEN /\ last' = HStep(u, "restore", r, "403")
          /\ out' = {}
          /\ UNCHANGED wb
     ELSE IF ~d.exists \/ i = 0
     THEN /\ last' = HStep(u, "restore", r, "404")
          /\ out' = {}
          /\ UNCHANGED wb
     ELSE /\ wb' = [wb EXCEPT ![r] = d2]
          /\ out' = { WEmit("whiteboard-restored", Members(rooms, r), r, u, m.version) }
          /\ last' = [HStep(u, "restore", r, "200") EXCEPT
                        !.before = d.version, !.after = d2.version,
                        !.changed = (d2 # d), !.bver = m.version, !.seq = i]
  /\ Received
  /\ UNCHANGED <<task, now, updateRateLimit, lastBcast, accAt, roomVars, rlVars>>

\* An element-update handled without any other handler running in between.
ElementUpdate(c, r, el) ==
  LET u == userOf(c)
      d == wb[r]
      pay == [NoPay EXCEPT !.element = el]
      m == PreSave(Mutated("element-update", pay, u, d))
      d2 == Persist(d, m)
  IN
  /\ conn[c] = "open"
  /\ r \in rooms[c]
  /\ d.exists /\ IndexOf(d.elements, el.id) # 0
  /\ d.version < MaxSnapVersion
  /\ wb' = [wb EXCEPT ![r] = d2]
  /\ out' = { WEmit("element-updated", ToRoom(rooms, c, r), r, u, m.version) }
  /\ last' = [WStep(c, "element-update", r, "accepted") EXCEPT
                !.before = d.version, !.after = d2.version, !.changed = (d2 # d),
                !.bver = m.version]
  /\ Received
  /\ UNCHANGED <<task, now, updateRateLimit, lastBcast, accAt, roomVars, rlVars>>

(* ---- sticky notes (StickyNoteHandler) -------------------------------- *)

StickyReqs == 4
StickyIds == {"s1", "s2"}
\* The ids a client asks to delete: the notes, a drawn element, an unknown id.
DeleteIds == StickyIds \cup {"e1", "s9"}

\* stickyNoteElement: type 'sticky-note', customData.userId the creator.
Sticky(id, u) == [id |-> id, rev |-> 0, type |-> "sticky-note", userId |-> u]
\* An element drawn on the board, which carries no customData.
Drawn(id) == [id |-> id, rev |-> 0, type |-> "rectangle", userId |-> None]

Range(sq) == {sq[i] : i \in 1..Len(sq)}

\* whiteboard.elements.findIndex(el => el.id === id && el.type === 'sticky-note'),
\* 0 for -1
StickyIndex(els, id) ==
  IF \E i \in 1..Len(els) : els[i].id = id /\ els[i].type = "sticky-note"
  THEN CHOOSE i \in 1..Len(els) :
         /\ els[i].id = id /\ els[i].type = "sticky-note"
         /\ \A j \in 1..(i - 1) : ~(els[j].id = id /\ els[j].type = "sticky-note")
  ELSE 0

\* A handler that lets any authenticated identity delete a note.
StickyOwned_any(el, u) == TRUE

\* element.customData?.userId !== user.id, negated
StickyOwned(el, u) == el.userId = u

\* whiteboard.elements.splice(i, 1)
StickySplice(m, i) ==
  [m EXCEPT !.elements = SubSeq(@, 1, i - 1) \o SubSeq(@, i + 1, Len(@)),
            !.emod = "set"]

StickyNone ==
  [op |-> None, conn |-> None, room |-> None, id |-> None, res |-> "init",
   step |-> None]

StickyStep(op, c, r, id, res, step) ==
  [op |-> op, conn |-> c, room |-> r, id |-> id, res |-> res, step |-> step]

\* sticky-note:create, with the id the handler generates.
StickyCreate(c, r, id) ==
  LET u == userOf(c)
      m0 == IF wb[r].exists THEN Loaded(wb[r]) ELSE NewDoc(0, None)
      m == PreSave(PushElement(m0, Sticky(id, u)))
  IN
  /\ conn[c] = "open"
  /\ task[c].pc = "idle"
  /\ recvSeq < StickyReqs
  /\ \A x \in Range(wb[r].elements) : x.id # id
  /\ recvSeq' = recvSeq + 1
  /\ wb' = [wb EXCEPT ![r] = Persist(@, m)]
  /\ out' = { Emit("sticky-note:created", Members(rooms, r), r, u) }
  /\ last' = StickyStep("sticky-note:create", c, r, id, "created", "save")
  /\ UNCHANGED <<task, now, updateRateLimit, lastBcast, accAt, roomVars, rlVars>>

\* sticky-note:delete up to the moment save() is called: findOne, findIndex
\* and the ownership test on the document read.
StickyDeleteFind(c, r, id) ==
  LET u == userOf(c)
      els == wb[r].elements
      i == StickyIndex(els, id)
      refusal == IF ~wb[r].exists THEN "WHITEBOARD_NOT_FOUND"
                 ELSE IF i = 0 THEN "STICKY_NOTE_NOT_FOUND"
                 ELSE IF ~StickyOwned(els[i], u) THEN "UNAUTHORIZED"
                 ELSE ""
  IN
  /\ conn[c] = "open"
  /\ task[c].pc = "idle"
  /\ recvSeq < StickyReqs
  /\ recvSeq' = recvSeq + 1
  /\ IF refusal # ""
     THEN /\ out' = { Emit("error:" \o refusal, {c}, r, u) }
          /\ last' = StickyStep("sticky-note:delete", c, r, id, refusal, "find")
          /\ UNCHANGED task
     ELSE /\ task' = [task EXCEPT ![c] =
                        [IdleTask EXCEPT !.pc = "save", !.op = "sticky-note:delete",
                                         !.room = r, !.pay.id = id,
                                         !.mem = StickySplice(Loaded(wb[r]), i)]]
          /\ out' = {}
          /\ last' = StickyStep("sticky-note:delete", c, r, id, "awaiting", "find")
  /\ UNCHANGED <<wb, now, updateRateLimit, lastBcast, accAt, roomVars, rlVars>>

\* sticky-note:delete, save() returns: the broadcast, or the catch block when
\* the save was refused.
StickyDeleteSave(c) ==
  LET t == task[c]
      u == userOf(c)
      r == t.room
      m == PreSave(t.mem)
  IN
  /\ t.pc = "save" /\ t.op = "sticky-note:delete"
  /\ task' = [task EXCEPT ![c] = IdleTask]
  /\ IF VersionConflict(wb[r], m)
     THEN /\ out' = { Emit("error:STICKY_NOTE_DELETE_FAILED", {c}, r, u) }
          /\ last' = StickyStep("sticky-note:delete", c, r, t.pay.id,
                                "STICKY_NOTE_DELETE_FAILED", "save")
          /\ UNCHANGED wb
     ELSE /\ wb' = [wb EXCEPT ![r] = Persist(@, m)]
          /\ out' = { Emit("sticky-note:deleted", Members(rooms, r), r, u) }
          /\ last' = StickyStep("sticky-note:delete", c, r, t.pay.id, "deleted", "save")
  /\ UNCHANGED <<now, updateRateLimit, recvSeq, lastBcast, accAt, roomVars, rlVars>>

(* ---- connection middleware (initializeSocket io.use) ----------------- *)

ConnLimit == 10
ConnWindowS == 60
ConnExtra == 2
ConnTickMs == 30000
ConnHorizonMs == 90000

\* socket.handshake.address of the connection attempts.
Addrs == {"a1", "a2"}

\* What an attempt presents: no token, a token that verifies (its user
\* stored, missing, or the lookup throwing), or one that does not verify.
Tokens == {"none", "valid", "no-user", "db-throws", "bad-signature", "malformed",
           "expired"}

\* The outcomes of the two store commands of one attempt.
StoreOutcomes == {"ok", "incr-throws", "expire-throws"}

\* A key that does not exist; hasTtl is FALSE for a key without an expiry.
NoCounter == [count |-> 0, expireAt |-> 0, hasTtl |-> FALSE]

ConnLive(a) ==
  connLimit[a].count > 0 /\ (connLimit[a].hasTtl => now < connLimit[a].expireAt)

\* redis.incr(connLimitKey)
ConnIncr(a) == IF ConnLive(a) THEN connLimit[a].count + 1 ELSE 1

\* A middleware that turns away the attempt that reaches the limit.
ConnExceeded_inclusive(current) == current >= ConnLimit

\* current > 10
ConnExceeded(current) == current > ConnLimit

\* jwt.verify: the name of the error it throws, "" when the token verifies.
jwtVerify(tok) ==
  CASE tok \in {"bad-signature", "malformed"} -> "JsonWebTokenError"
    [] tok = "expired" -> "TokenExpiredError"
    [] OTHER -> ""

\* verifyToken: whatever jwt.verify throws is replaced by new Error("Invalid
\* token"), whose name is "Error".
verifyToken(tok) == IF jwtVerify(tok) = "" THEN "" ELSE "Error"

\* The catch block of the middleware: the reason by the error's name.
CatchReason(name) ==
  CASE name = "JsonWebTokenError" -> "Invalid token"
    [] name = "TokenExpiredError" -> "Token expired"
    [] OTHER -> "Authentication failed"

\* Token extraction, verification and user lookup: "" when next() is called
\* without an error.
Authenticate(tok) ==
  IF tok = "none" THEN ""
  ELSE IF verifyToken(tok) # "" THEN CatchReason(verifyToken(tok))
  ELSE IF tok = "db-throws" THEN CatchReason("MongoError")
  ELSE IF tok = "no-user" THEN "User not found"
  ELSE ""

HsNone ==
  [op |-> None, addr |-> None, token |-> None, res |-> "init", current |-> 0,
   authRun |-> FALSE, thrown |-> FALSE, at |-> 0]

\* One connection attempt through the middleware. When redis.incr throws the
\* key is untouched; when redis.expire throws (it is called for a count of 1
\* only) the key stays without an expiry. Either way the inner catch logs and
\* the attempt goes on to authentication.
Handshake(a, tok, store) ==
  LET current == ConnIncr(a)
      step == [HsNone EXCEPT !.op = "handshake", !.addr = a, !.token = tok,
                             !.at = now]
      thrown == store = "incr-throws" \/ (store = "expire-throws" /\ current = 1)
  IN
  /\ store = "expire-throws" => current = 1
  /\ out' = {}
  /\ IF store = "incr-throws"
     THEN UNCHANGED connLimit
     ELSE /\ current <= ConnLimit + ConnExtra
          /\ connLimit' = [connLimit EXCEPT ![a] =
                             IF current = 1
                             THEN [count |-> 1,
                                   expireAt |-> IF store = "ok"
                                                THEN now + ConnWindowS * 1000
                                                ELSE 0,
                                   hasTtl |-> store = "ok"]
                             ELSE [@ EXCEPT !.count = current]]
  /\ last' = IF thrown
             THEN [step EXCEPT !.res = Authenticate(tok), !.authRun = TRUE,
                               !.current = IF store = "incr-throws" THEN 0 ELSE current,
                               !.thrown = TRUE]
             ELSE IF ConnExceeded(current)
             THEN [step EXCEPT !.res = "Too many connection attempts",
                               !.current = current]
             ELSE [step EXCEPT !.res = Authenticate(tok),
                               !.current = current, !.authRun = TRUE]
  /\ UNCHANGED <<now, rlCount, rlExpireAt, rlFirst, rlTask, wbVars, roomVars, http>>

\* Time passes.
ConnTick ==
  /\ now < TimeStart + ConnHorizonMs
  /\ now' = now + ConnTickMs
  /\ out' = {}
  /\ last' = HsNone
  /\ UNCHANGED <<rlVars, wbVars, roomVars>>

(* ---- HTTP rate limiter (createRateLimit) ------------------------------ *)

\* The limiter's options, the requests for one key, and how time passes.
HttpMaxRequests == 2
HttpWindowMs == 1000
HttpRequests == 4
HttpTickMs == 1000
HttpHorizonMs == 1000

HttpReqs == 1 .. HttpRequests

NoRequest == [pc |-> "idle", read |-> 0]

\* No key, no request received, none let through at this instant.
HttpStart ==
  [val |-> 0, ttl |-> FALSE, expireAt |-> 0, passed |-> 0,
   req |-> [q \in HttpReqs |-> NoRequest]]

HttpNone == [op |-> None, req |-> 0, res |-> "init", read |-> 0]

HttpLive == http.val > 0 /\ (http.ttl => now < http.expireAt)

\* redisClient.get(key): 0 stands for null.
HttpGet(q) ==
  /\ http.req[q].pc = "idle"
  /\ http' = [http EXCEPT !.req[q] =
                [pc |-> "got", read |-> IF HttpLive THEN http.val ELSE 0]]
  /\ out' = {}
  /\ last' = HttpNone
  /\ UNCHANGED <<now, rlCount, rlExpireAt, rlFirst, rlTask, connLimit, wbVars, roomVars>>

\* requests >= options.maxRequests
HttpExceeded(requests) == requests >= HttpMaxRequests

\* The rest of the middleware, on the value get returned: setEx and next()
\* for null, 429 at the limit, incr and next() otherwise.
HttpDecide(q) ==
  LET t == http.req[q]
      done == [pc |-> "done", read |-> t.read]
      step(res) == [op |-> "http-request", req |-> q, res |-> res, read |-> t.read]
  IN
  /\ t.pc = "got"
  /\ out' = {}
  /\ IF t.read = 0
     THEN /\ http' = [http EXCEPT !.val = 1, !.ttl = TRUE,
                                  !.expireAt = now + HttpWindowMs,
                                  !.passed = @ + 1, !.req[q] = done]
          /\ last' = step("next")
     ELSE IF HttpExceeded(t.read)
     THEN /\ http' = [http EXCEPT !.req[q] = done]
          /\ last' = step("429")
     ELSE /\ http' = [http EXCEPT !.val = IF HttpLive THEN @ + 1 ELSE 1,
                                  !.ttl = IF HttpLive THEN @ ELSE FALSE,
                                  !.passed = @ + 1, !.req[q] = done]
          /\ last' = step("next")
  /\ UNCHANGED <<now, rlCount, rlExpireAt, rlFirst, rlTask, connLimit, wbVars, roomVars>>

\* Time passes; the requests let through are counted per instant.
HttpTick ==
  /\ now < TimeStart + HttpHorizonMs
  /\ now' = now + HttpTickMs
  /\ http' = [http EXCEPT !.passed = 0]
  /\ out' = {}
  /\ last' = HttpNone
  /\ UNCHANGED <<rlCount, rlExpireAt, rlFirst, rlTask, connLimit, wbVars, roomVars>>

(* ---- Per-event socket rate limiter ----------------------------------- *)

\* The limiter's options, and the events it wraps.
RLMaxRequests == 2
RLWindowMs == 2
RLSlack == 1
RLExtra == 1
RLEvents == {"join-room"}

\* ratelimit:socket:<userId>:<eventName>
RLKey(c, ev) == <<userOf(c), ev>>
RLKeys == Users \X RLEvents

RLIdle == [pc |-> "idle", ev |-> None, at |-> 0, first |-> 0, ttl |-> 0, prevCount |-> 0]

\* A counter is there while it has a value and its expiry, if set, is ahead.
RLLive(k) == rlCount[k] > 0 /\ (rlExpireAt[k] = 0 \/ now < rlExpireAt[k])

\* redis.incr(key)
RLIncr(k) == IF RLLive(k) THEN rlCount[k] + 1 ELSE 1

\* A limiter that turns away the event that reaches the limit.
RLExceeded_inclusive(current) == current >= RLMaxRequests

\* current > maxRequests
RLExceeded(current) == current > RLMaxRequests

RLStep(c, ev, res, current, at, first, ttl, prevCount) ==
  [op |-> "limited-event", conn |-> c, ev |-> ev, res |-> res, current |-> current,
   invoked |-> (res = "invoked"), at |-> at, first |-> first, ttl |-> ttl,
   prevCount |-> prevCount, failed |-> FALSE,
   calls |-> IF res = "invoked" THEN 1 ELSE 0]

\* No limiter step was the last step.
RLQuiet == RLStep(None, None, "init", 0, 0, 0, 0, 0)

RLOutcome(current) == IF RLExceeded(current) THEN "RATE_LIMIT_EXCEEDED" ELSE "invoked"

\* A limiter that announces the refusal to every connection.
RLEmits_broadcast(c, ev, current) ==
  IF RLExceeded(current)
  THEN { Emit("error:RATE_LIMIT_EXCEEDED", Conns, None, userOf(c)) }
  ELSE {}

RLEmits(c, ev, current) ==
  IF RLExceeded(current)
  THEN { Emit("error:RATE_LIMIT_EXCEEDED", {c}, None, userOf(c)) }
  ELSE {}

\* A limiter that refuses the event when the store fails.
RLCatch_closed(c, ev) ==
  [calls |-> 0, emits |-> { Emit("error:RATE_LIMIT_EXCEEDED", {c}, None, userOf(c)) }]

\* catch (error): return handler(socket, data)
RLCatch(c, ev) == [calls |-> 1, emits |-> {}]

\* An event arrives: the counter is incremented; a count of 1 goes on to
\* set the expiry, any other count is decided at once.
RLEvent(c, ev) ==
  LET k == RLKey(c, ev)
      current == RLIncr(k)
  IN
  /\ conn[c] = "open"
  /\ rlTask[c].pc = "idle"
  /\ current <= RLMaxRequests + RLExtra
  /\ rlCount' = [rlCount EXCEPT ![k] = current]
  /\ rlExpireAt' = IF current = 1 THEN [rlExpireAt EXCEPT ![k] = 0] ELSE rlExpireAt
  /\ rlFirst' = IF current = 1 THEN [rlFirst EXCEPT ![k] = now] ELSE rlFirst
  /\ IF current = 1
     THEN /\ rlTask' = [rlTask EXCEPT ![c] =
                          [pc |-> "expire", ev |-> ev, at |-> now, first |-> rlFirst[k],
                           ttl |-> rlExpireAt[k], prevCount |-> rlCount[k]]]
          /\ out' = {}
          /\ last' = RLQuiet
     ELSE /\ out' = RLEmits(c, ev, current)
          /\ last' = RLStep(c, ev, RLOutcome(current), current, now, rlFirst[k],
                            rlExpireAt[k], rlCount[k])
          /\ UNCHANGED rlTask
  /\ UNCHANGED <<now, wbVars, roomVars, connLimit, http>>

\* redis.pExpire(key, windowMs) of the window's first event, then its decision.
RLExpire(c) ==
  LET t == rlTask[c]
      k == RLKey(c, t.ev)
  IN
  /\ t.pc = "expire"
  /\ rlExpireAt' = [rlExpireAt EXCEPT ![k] = now + RLWindowMs]
  /\ rlTask' = [rlTask EXCEPT ![c] = RLIdle]
  /\ out' = RLEmits(c, t.ev, 1)
  /\ last' = RLStep(c, t.ev, RLOutcome(1), 1, t.at, t.first, t.ttl, t.prevCount)
  /\ UNCHANGED <<now, rlCount, rlFirst, wbVars, roomVars, connLimit, http>>

\* redis.incr(key) throws: the counter is as it was, the catch block runs.
RLIncrFails(c, ev) ==
  LET k == RLKey(c, ev) IN
  /\ conn[c] = "open"
  /\ rlTask[c].pc = "idle"
  /\ out' = RLCatch(c, ev).emits
  /\ last' = [RLStep(c, ev, "store-failed", 0, now, rlFirst[k], rlExpireAt[k], rlCount[k])
                EXCEPT !.failed = TRUE, !.calls = RLCatch(c, ev).calls]
  /\ UNCHANGED <<now, rlVars, wbVars, roomVars>>

\* redis.pExpire(key, windowMs) throws: no expiry is set, the catch block runs.
RLExpireFails(c) ==
  LET t == rlTask[c] IN
  /\ t.pc = "expire"
  /\ rlTask' = [rlTask EXCEPT ![c] = RLIdle]
  /\ out' = RLCatch(c, t.ev).emits
  /\ last' = [RLStep(c, t.ev, "store-failed", 1, t.at, t.first, t.ttl, t.prevCount)
                EXCEPT !.failed = TRUE, !.calls = RLCatch(c, t.ev).calls]
  /\ UNCHANGED <<now, rlCount, rlExpireAt, rlFirst, wbVars, roomVars, connLimit, http>>

RLTick ==
  /\ now < TimeStart + RLWindowMs + RLSlack
  /\ now' = now + 1
  /\ out' = {}
  /\ last' = RLQuiet
  /\ UNCHANGED <<rlVars, wbVars, roomVars>>

(* ---- specifications -------------------------------------------------- *)

vars == <<presence, rooms, currentRoom, disconnectingRooms, conn, participants,
          out, last, leftRecv, wb, task, now, updateRateLimit, recvSeq,
          lastBcast, accAt, rlCount, rlExpireAt, rlFirst, rlTask, refresh,
          messages, connLimit, joining, http>>

\* No connection has joined anything.
RoomInit ==
  /\ presence = [r \in Rooms |-> {}]
  /\ rooms = [c \in Conns |-> {}]
  /\ currentRoom = [c \in Conns |-> None]
  /\ disconnectingRooms = [c \in Conns |-> {}]
  /\ conn = [c \in Conns |-> "open"]
  /\ participants = [r \in Rooms |-> {ownerOf(r)}]
  /\ leftRecv = [c \in Conns |-> NoTally]
  /\ refresh = [c \in Conns |-> NoRefresh]
  /\ messages = [r \in Rooms |-> <<>>]
  /\ joining = [c \in Conns |-> NoJoin]

\* c1 and c3 have joined r1, c2 has joined r2.
JoinedInit ==
  /\ presence = [r \in Rooms |->
                   IF r = "r1" THEN {Entry("u1", "c1"), Entry("u2", "c3")}
                   ELSE {Entry("u1", "c2")}]
  /\ rooms = [c \in Conns |-> IF c = "c2" THEN {"r2"} ELSE {"r1"}]
  /\ currentRoom = [c \in Conns |-> IF c = "c2" THEN "r2" ELSE "r1"]
  /\ disconnectingRooms = [c \in Conns |-> {}]
  /\ conn = [c \in Conns |-> "open"]
  /\ participants = [r \in Rooms |-> {ownerOf(r)}]
  /\ leftRecv = [c \in Conns |-> NoTally]
  /\ refresh = [c \in Conns |-> NoRefresh]
  /\ messages = [r \in Rooms |-> <<>>]
  /\ joining = [c \in Conns |-> NoJoin]

\* No whiteboard document stored, no handler running, empty maps.
WbInit ==
  /\ wb = [r \in Rooms |-> NoDoc]
  /\ task = [c \in Conns |-> IdleTask]
  /\ now = TimeStart
  /\ updateRateLimit = [k \in RateKeys |-> 0]
  /\ recvSeq = 0
  /\ lastBcast = [r \in Rooms |-> NoBcast]
  /\ accAt = [k \in Users \X Rooms |-> 0]

RLInit ==
  /\ rlCount = [k \in RLKeys |-> 0]
  /\ rlExpireAt = [k \in RLKeys |-> 0]
  /\ rlFirst = [k \in RLKeys |-> 0]
  /\ rlTask = [c \in Conns |-> RLIdle]
  /\ connLimit = [a \in Addrs |-> NoCounter]
  /\ http = HttpStart

Init ==
  /\ RoomInit /\ WbInit /\ RLInit
  /\ out = {}
  /\ last = Last("init", None, None, "init", FALSE, {})

Next ==
  \/ \E c \in Conns, r \in Rooms : JoinRoom(c, r) /\ UNCHANGED <<now, wbVars, rlVars, refresh, messages, joining>>
  \/ \E c \in Conns, r \in Rooms : LeaveRoom(c, r) /\ UNCHANGED <<now, wbVars, rlVars, refresh, messages, joining>>
  \/ \E c \in Conns : Disconnect(c) /\ UNCHANGED <<now, wbVars, rlVars, refresh, messages, joining>>
  \/ \E c \in Conns : DisconnectCleanup(c) /\ UNCHANGED <<now, wbVars, rlVars, refresh, messages, joining>>
  \/ \E u \in Users, r \in Rooms : HttpJoinRoom(u, r) /\ UNCHANGED <<now, wbVars, rlVars, refresh, messages, joining>>

Spec == Init /\ [][Next]_vars

\* The document a whiteboard-update of u2 left in r1 some time ago.
SeedDoc ==
  LET pay == [NoPay EXCEPT !.elements = <<El("e1", 0)>>]
      d == Created("u2")
  IN Persist(d, PreSave(Mutated("whiteboard-update", pay, "u2", d)))

InitWB ==
  /\ JoinedInit /\ RLInit
  /\ wb \in { [r \in Rooms |-> NoDoc],
              [r \in Rooms |-> IF r = "r1" THEN SeedDoc ELSE NoDoc] }
  /\ task = [c \in Conns |-> IdleTask]
  /\ now = TimeStart
  /\ updateRateLimit = [k \in RateKeys |-> 0]
  /\ recvSeq = 0
  /\ lastBcast = [r \in Rooms |-> NoBcast]
  /\ accAt = [k \in Users \X Rooms |-> 0]
  /\ out = {}
  /\ last = WNone

NextWB ==
  \/ \E c \in Conns, r \in WbRooms, op \in WbOps :
       \E pay \in Payloads(op) : WbRecv(c, op, r, pay)
  \/ \E c \in Conns : WbAccess(c)
  \/ \E c \in Conns : WbFind(c)
  \/ \E c \in Conns : WbStore(c)
  \/ \E c \in CursorConns, r \in WbRooms : CursorMove(c, r)
  \/ WbTick

SpecWB == InitWB /\ [][NextWB]_vars

\* The document a whiteboard-update of u2 with eleven elements left in r1.
BigSeedDoc ==
  LET pay == [NoPay EXCEPT !.elements = [n \in 1..BigLen |->
                                           IF n = 1 THEN El("e1", 0) ELSE El("e2", 0)]]
      d == Created("u2")
  IN Persist(d, PreSave(Mutated("whiteboard-update", pay, "u2", d)))

\* The document after its owner took snapshots of it through the snapshot
\* route until the list was PrefillGap short of the cap.
Prefilled(d) ==
  LET n == SnapshotCap - PrefillGap - Len(d.snapshots)
      snap == [Snapshot(d) EXCEPT !.userId = "u2"]
  IN [d EXCEPT !.snapshots = @ \o [k \in 1..n |-> snap], !.vkey = @ + n]

InitSnap ==
  /\ JoinedInit /\ RLInit
  /\ \E d \in {SeedDoc, BigSeedDoc, Prefilled(SeedDoc), Prefilled(BigSeedDoc)} :
       wb = [r \in Rooms |-> IF r = "r1" THEN d ELSE NoDoc]
  /\ task = [c \in Conns |-> IdleTask]
  /\ now = TimeStart
  /\ updateRateLimit = [k \in RateKeys |-> 0]
  /\ recvSeq = 0
  /\ lastBcast = [r \in Rooms |-> NoBcast]
  /\ accAt = [k \in Users \X Rooms |-> 0]
  /\ out = {}
  /\ last = WNone

NextSnap ==
  \/ \E u \in Users, r \in Rooms : HttpSnapshot(u, r)
  \/ \E u \in Users, r \in WbRooms : CreateSnapshotStatic(u, r)
  \/ \E u \in Users, r \in Rooms : \E i \in 0..(SnapshotCap + MaxOver) : HttpRestore(u, r, i)
  \/ \E c \in Conns, r \in WbRooms : ElementUpdate(c, r, El("e1", 1))

SpecSnap == InitSnap /\ [][NextSnap]_vars

\* Joins under faults, leaves, and heartbeats whose activity refresh is split
\* at its two store calls.
InitJoin == Init

\* The connections that send events here: one of each identity.
JoinConns == {"c1", "c3"}
\* The connection whose client sends heartbeats.
HeartbeatConns == {"c1"}

NextJoin ==
  \/ \E c \in JoinConns, r \in Rooms, f \in JoinFaults :
       JoinRoomF(c, r, f) /\ UNCHANGED <<now, wbVars, rlVars, refresh, messages, joining>>
  \/ \E c \in JoinConns, r \in Rooms : LeaveRoom(c, r) /\ UNCHANGED <<now, wbVars, rlVars, refresh, messages, joining>>
  \/ \E c \in HeartbeatConns : HeartbeatRead(c) /\ UNCHANGED <<now, wbVars, rlVars, messages, joining>>
  \/ \E c \in HeartbeatConns : HeartbeatWrite(c) /\ UNCHANGED <<now, wbVars, rlVars, messages, joining>>

SpecJoin == InitJoin /\ [][NextJoin]_vars

\* Whiteboard writes to both rooms together with joins: r1 has a document.
EchoRecv == 1

InitEcho ==
  /\ JoinedInit /\ RLInit
  /\ wb = [r \in Rooms |-> IF r = "r1" THEN SeedDoc ELSE NoDoc]
  /\ task = [c \in Conns |-> IdleTask]
  /\ now = TimeStart
  /\ updateRateLimit = [k \in RateKeys |-> 0]
  /\ recvSeq = 0
  /\ lastBcast = [r \in Rooms |-> NoBcast]
  /\ accAt = [k \in Users \X Rooms |-> 0]
  /\ out = {}
  /\ last = WNone

NextEcho ==
  \/ \E c \in Conns, r \in Rooms, op \in WriteOps :
       \E pay \in Payloads(op) : recvSeq < EchoRecv /\ WbRecv(c, op, r, pay)
  \/ \E c \in Conns : WbAccess(c)
  \/ \E c \in Conns : WbFind(c)
  \/ \E c \in Conns : WbStore(c)
  \/ \E c \in Conns, r \in Rooms : JoinRoom(c, r) /\ UNCHANGED <<now, wbVars, rlVars, refresh, messages, joining>>

SpecEcho == InitEcho /\ [][NextEcho]_vars

\* whiteboard-update events of every connection to both rooms, as time passes.
InitThrottle == InitEcho

NextThrottle ==
  \/ \E c \in Conns, r \in Rooms :
       \E pay \in Payloads("whiteboard-update") : WbRecv(c, "whiteboard-update", r, pay)
  \/ \E c \in Conns : WbAccess(c)
  \/ \E c \in Conns : WbFind(c)
  \/ \E c \in Conns : WbStore(c)
  \/ WbTick

SpecThrottle == InitThrottle /\ [][NextThrottle]_vars

\* Chat joins, leaves and messages of every connection.
InitChat == Init

NextChat ==
  \/ \E c \in Conns, r \in Rooms : ChatJoin(c, r) /\ UNCHANGED <<now, wbVars, rlVars>>
  \/ \E c \in Conns, r \in Rooms : ChatLeave(c, r) /\ UNCHANGED <<now, wbVars, rlVars>>
  \/ \E c \in Conns, r \in Rooms, saved \in BOOLEAN :
       ChatMessage(c, r, saved) /\ UNCHANGED <<now, wbVars, rlVars>>

SpecChat == InitChat /\ [][NextChat]_vars

\* Connection attempts from two addresses as time passes.
InitConn ==
  /\ RoomInit /\ WbInit /\ RLInit
  /\ out = {}
  /\ last = HsNone

NextConn ==
  \/ \E a \in Addrs, tok \in Tokens, store \in StoreOutcomes : Handshake(a, tok, store)
  \/ ConnTick

SpecConn == InitConn /\ [][NextConn]_vars

\* Joins whose handlers interleave at the occupancy read, and disconnects.
\* A third identity, on a connection that sends nothing here, is in r1.
Guest == Entry("u3", "c4")

InitRace ==
  /\ presence = [r \in Rooms |-> IF r = "r1" THEN {Guest} ELSE {}]
  /\ rooms = [c \in Conns |-> {}]
  /\ currentRoom = [c \in Conns |-> None]
  /\ disconnectingRooms = [c \in Conns |-> {}]
  /\ conn = [c \in Conns |-> "open"]
  /\ participants = [r \in Rooms |-> {ownerOf(r)}]
  /\ leftRecv = [c \in Conns |-> NoTally]
  /\ refresh = [c \in Conns |-> NoRefresh]
  /\ messages = [r \in Rooms |-> <<>>]
  /\ joining = [c \in Conns |-> NoJoin]
  /\ WbInit /\ RLInit
  /\ out = {}
  /\ last = Last("init", None, None, "init", FALSE, {})

NextRace ==
  \/ \E c \in Conns, r \in Rooms : JoinRead(c, r) /\ UNCHANGED <<now, wbVars, rlVars>>
  \/ \E c \in Conns : JoinAdd(c) /\ UNCHANGED <<now, wbVars, rlVars>>
  \/ \E c \in Conns : Disconnect(c) /\ UNCHANGED <<now, wbVars, rlVars, refresh, messages, joining>>
  \/ \E c \in Conns : DisconnectCleanup(c) /\ UNCHANGED <<now, wbVars, rlVars, refresh, messages, joining>>

SpecRace == InitRace /\ [][NextRace]_vars

\* Requests for one key of the HTTP limiter, interleaved at the awaited get.
InitHttp ==
  /\ RoomInit /\ WbInit /\ RLInit
  /\ out = {}
  /\ last = HttpNone

NextHttp ==
  \/ \E q \in HttpReqs : HttpGet(q)
  \/ \E q \in HttpReqs : HttpDecide(q)
  \/ HttpTick

SpecHttp == InitHttp /\ [][NextHttp]_vars

\* r1's board holds a note of each identity and a drawn element.
StickyDoc ==
  LET d1 == Persist(NoDoc, PreSave(PushElement(NewDoc(0, None), Sticky("s1", "u1"))))
      d2 == Persist(d1, PreSave(PushElement(Loaded(d1), Sticky("s2", "u2"))))
  IN Persist(d2, PreSave(PushElement(Loaded(d2), Drawn("e1"))))

InitSticky ==
  /\ JoinedInit /\ RLInit
  /\ wb = [r \in Rooms |-> IF r = "r1" THEN StickyDoc ELSE NoDoc]
  /\ task = [c \in Conns |-> IdleTask]
  /\ now = TimeStart
  /\ updateRateLimit = [k \in RateKeys |-> 0]
  /\ recvSeq = 0
  /\ lastBcast = [r \in Rooms |-> NoBcast]
  /\ accAt = [k \in Users \X Rooms |-> 0]
  /\ out = {}
  /\ last = StickyNone

NextSticky ==
  \/ \E c \in Conns, r \in Rooms, id \in StickyIds : StickyCreate(c, r, id)
  \/ \E c \in Conns, r \in Rooms, id \in DeleteIds : StickyDeleteFind(c, r, id)
  \/ \E c \in Conns : StickyDeleteSave(c)

SpecSticky == InitSticky /\ [][NextSticky]_vars

\* Joins and leaves of every connection, and signalling between them.
InitRTC == Init

NextRTC ==
  \/ \E c \in Conns, r \in Rooms : JoinRoom(c, r) /\ UNCHANGED <<now, wbVars, rlVars, refresh, messages, joining>>
  \/ \E c \in Conns, r \in Rooms : LeaveRoom(c, r) /\ UNCHANGED <<now, wbVars, rlVars, refresh, messages, joining>>
  \/ \E c \in Conns, ev \in Signals, r \in Rooms, tgt \in Users :
       Signal(c, ev, r, tgt) /\ UNCHANGED <<now, wbVars, rlVars>>
  \/ \E c \in Conns, r \in Rooms, tgt \in Users \cup {None} :
       CallUser(c, r, tgt) /\ UNCHANGED <<now, wbVars, rlVars>>

SpecRTC == InitRTC /\ [][NextRTC]_vars

InitRL ==
  /\ RoomInit /\ WbInit /\ RLInit
  /\ out = {}
  /\ last = RLQuiet

NextRL ==
  \/ \E c \in Conns, ev \in RLEvents : RLEvent(c, ev)
  \/ \E c \in Conns : RLExpire(c)
  \/ \E c \in Conns, ev \in RLEvents : RLIncrFails(c, ev)
  \/ \E c \in Conns : RLExpireFails(c)
  \/ RLTick

SpecRL == InitRL /\ [][NextRL]_vars


(* ---- claims about the Room Coordinator (checked under Spec) ---------- *)

\* C2: a disconnect handler removes a presence entry of the disconnecting
\* identity only if the entry's stored socketId is the disconnecting
\* connection's id; an entry written by another connection stays.
C2_DisconnectRemovesOnlyOwnEntries ==
  last.op = "disconnect" =>
    \A x \in last.removed : x.entry.socketId = last.conn

C4_RejectedJoinAtCapacityHasNoEffect ==
  (last.op = "join-room" /\ last.res = "PARTICIPANT_LIMIT") =>
    /\ ~(\E x \in presence[last.room] : x.id = userOf(last.conn))
    /\ (last.room \in rooms[last.conn] => last.was)
    /\ \A e \in out : e.room = last.room => e.to \subseteq {last.conn}

\* C9: for one transport disconnect, no remaining member receives more than
\* one user-left for the disconnecting identity.
C9_OneUserLeftPerDisconnect ==
  (last.op = "disconnect" /\ last.res = "connection-handler") =>
    \A d \in Conns : last.tally[d] <= 1

(* ---- claims about the Whiteboard Synchronisation Engine (SpecWB) ----- *)

\* C1: every accepted whiteboard mutation leaves the persisted version at
\* the version before it plus exactly 1 (so the version never decreases).
C1_AcceptedMutationAddsOne ==
  (last.op \in WriteOps /\ last.res = "accepted") => last.after = last.before + 1

\* C5: a whiteboard, cursor or sticky-note event of a connection that is not
\* in the room's channel leaves the document unchanged and reaches no other
\* connection.
C5_NonMemberEventHasNoEffect ==
  (last.op \in WbOps \cup {"cursor-move"} /\ ~last.member) =>
    /\ ~last.changed
    /\ \A e \in out : e.to \subseteq {last.conn}

\* C6: no whiteboard write is accepted less than 100 ms after the same
\* identity's previous accepted write to the same room.
C6_WriteWithinIntervalRejected ==
  (last.op \in WriteOps /\ last.res = "accepted") =>
    last.at - last.prevAt >= UpdateIntervalMs

\* C7: within a room, write broadcasts go out in the order in which the
\* server received the writes.
C7_BroadcastsFollowReceiptOrder ==
  (last.op \in WriteOps /\ last.res = "accepted") => last.seq > last.prevSeq

\* C8: of two whiteboard-update events of different members handled
\* concurrently, the second to save is accepted too, leaves the version two
\* above the one both read, and is broadcast with another version than the
\* first.
C8_ConcurrentUpdatesBothAdvance ==
  ( /\ last.op = "whiteboard-update"
    /\ last.res \in {"accepted", "save-failed"}
    /\ last.ov.op = "whiteboard-update"
    /\ userOf(last.ov.conn) # userOf(last.conn) ) =>
    /\ last.res = "accepted"
    /\ last.after = last.base + 2
    /\ last.bver # last.ov.bver

(* ---- claims about the socket rate limiter (SpecRL) ------------------- *)

C11_StoreFailureFailsOpen ==
  (last.op = "limited-event" /\ last.failed) =>
    /\ last.calls = 1
    /\ \A e \in out : e.ev # "error:RATE_LIMIT_EXCEEDED"

\* The expiry of a window's first event could not be set.
C11_Witness ==
  last.op = "limited-event" /\ last.failed /\ last.current = 1

C13_SnapshotListCapped ==
  \A r \in Rooms : Len(wb[r].snapshots) <= SnapshotCap

\* C16: a restore by anyone but the owner is rejected, changes nothing and
\* emits nothing; a restore by the owner takes elements and view state from
\* the snapshot, increases the version, and emits whiteboard-restored and no
\* whiteboard-updated to the room.
C16_RestoreOwnerOnlyAndBumps ==
  (last.op = "restore") =>
    IF last.conn # ownerOf(last.room)
    THEN last.res = "403" /\ ~last.changed /\ out = {}
    ELSE last.res = "200" =>
           /\ last.after > last.before
           /\ \E e \in out : e.ev = "whiteboard-restored" /\ e.to = Members(rooms, last.room)
           /\ \A e \in out : e.ev # "whiteboard-updated"

(* ---- further claims about the whiteboard engine (SpecWB) ------------- *)

\* C14: an element-update or element-delete naming an element that is not in
\* the room's element list changes neither the list nor the version, is
\* broadcast to nobody else, and is answered to the caller with a notice.
C14_AbsentElementIsNoticedNoOp ==
  (last.op \in {"element-update", "element-delete"} /\ last.absent) =>
    /\ ~last.changed
    /\ last.after = last.before
    /\ \A e \in out : e.to \subseteq {last.conn}
    /\ \E e \in out : e.to = {last.conn}

\* C15: a whiteboard-update or element-create that passed the handler's
\* checks for a room without a document leaves the room with a document and
\* is broadcast to the other members.
C15_FirstWriteCreatesDocument ==
  (last.op \in {"whiteboard-update", "element-create"} /\ last.nodoc
     /\ last.res \in {"accepted", "nothing-done"}) =>
    /\ wb[last.room].exists
    /\ \E e \in out : /\ e.ev = BroadcastName(last.op)
                      /\ e.to = ToRoom(rooms, last.conn, last.room)

(* ---- claims about join-room and presence refresh (SpecJoin) ---------- *)

JoinReplies ==
  {"room-joined", "error:INVALID_DATA", "error:INVALID_ROOM_ID", "error:JOIN_ROOM_ERROR"}
    \cup {"room:join-error:" \o LimitCode(f) : f \in LookupFaults \cup {"none"}}

C18_JoinOnlyWithAccess ==
  (last.op = "join-room" /\ last.res = "joined") =>
    hasAccess(userOf(last.conn), last.room)

\* C19: a join-room during which the presence store refuses the write ends
\* with an error to the joiner and no room-joined, with the connection out of
\* the room's channel, and without user-joined.
C19_JoinFailsClosed ==
  (last.op = "join-room" /\ last.fault = "store-down") =>
    /\ \E e \in out : e.ev = "error:JOIN_ROOM_ERROR" /\ e.to = {last.conn}
    /\ \A e \in out : e.ev \notin {"room-joined", "user-joined"}
    /\ last.room \notin rooms[last.conn]

\* C20: an activity refresh that ends after the identity's entry was removed
\* from the room does not write the entry back.
C20_RefreshNeverRestoresRemoved ==
  (last.op = "heartbeat" /\ last.res = "refreshed" /\ ~last.had) =>
    ~isUserInRoom(presence, userOf(last.conn), last.room)

(* ---- further claims about the Room Coordinator (Spec) ---------------- *)

SelfExcluded ==
  {"user-joined", "whiteboard-updated", "element-created", "element-updated",
   "element-deleted"}

C29_ThrottlePerIdentityAndRoom ==
  [][ /\ \A u \in Users, r \in Rooms :
           updateRateLimit'[<<"", u, r>>] # updateRateLimit[<<"", u, r>>] =>
             \E c \in Conns : /\ userOf(c) = u
                              /\ task[c].pc = "access" /\ task'[c].pc = "find"
                              /\ task[c].op = "whiteboard-update"
                              /\ task[c].room = r
      /\ (last'.res = "RATE_LIMIT_ERROR") =>
           last'.at - updateRateLimit[<<"", userOf(last'.conn), last'.room>>]
             < UpdateIntervalMs ]_vars

\* C29 witness: a whiteboard-update passed the throttle within the interval
\* of a write of the other identity to the same room.
C29_Witness ==
  \E c \in Conns, v \in Users :
    /\ task[c].pc = "find" /\ task[c].op = "whiteboard-update"
    /\ v # userOf(c)
    /\ updateRateLimit[<<"", v, task[c].room>>] > 0
    /\ task[c].at - updateRateLimit[<<"", v, task[c].room>>] < UpdateIntervalMs

(* ---- claims about chat (SpecChat) ------------------------------------ *)

\* C23: whenever a connection's chat:message is persisted, that connection
\* receives the chat:message event it caused.
C23_ChatMessageReachesSender ==
  (last.op = "chat:message" /\ last.res = "persisted") =>
    \E e \in out : e.ev = "chat:message" /\ last.conn \in e.to

(* ---- claims about WebRTC signalling (SpecRTC) ------------------------ *)

\* C24: a webrtc-offer or webrtc-answer is forwarded only when the sender and
\* the target identity both have an entry in the room; otherwise nothing is
\* forwarded and the sender is sent an error.
C24_ForwardOnlyBetweenMembers ==
  (last.op \in {"webrtc-offer", "webrtc-answer"}) =>
    IF /\ isUserInRoom(presence, userOf(last.conn), last.room)
       /\ isUserInRoom(presence, last.target, last.room)
    THEN TRUE
    ELSE /\ \A e \in out : e.ev # last.op
         /\ \E e \in out : e.to = {last.conn}

\* C25: a webrtc-offer, webrtc-answer or webrtc-ice-candidate is delivered to
\* at most one connection, which is in the room's channel and whose identity
\* is the target; no other connection receives it.
C25_SignalReachesOneTarget ==
  (last.op \in Signals) =>
    /\ Cardinality({e \in out : e.ev = last.op}) <= 1
    /\ \A e \in out : e.ev = last.op =>
         /\ Cardinality(e.to) = 1
         /\ \A d \in e.to : last.room \in rooms[d] /\ userOf(d) = last.target

\* C25 witness: a signal forwarded in a channel of three connections.
C25_Witness ==
  /\ last.op \in Signals /\ last.res = "forwarded"
  /\ Cardinality(Members(rooms, last.room)) = 3

\* C26: call-user is answered with participant-limit-reached, and emits no
\* call-started, exactly when the room's presence occupancy exceeds the cap
\* of the caller's plan.
C26_CallRejectedOnlyAboveCap ==
  (last.op = "call-user") =>
    /\ (last.res = "participant-limit-reached") <=>
         (Cardinality(last.users) > getParticipantLimit(planOf(userOf(last.conn))))
    /\ (last.res = "participant-limit-reached") =>
         \A e \in out : e.ev # "call-started"

(* ---- claims about the connection middleware (SpecConn) --------------- *)

C28_RejectionReasonByFailure ==
  (last.op = "handshake" /\ last.authRun) =>
    /\ last.token \in {"bad-signature", "malformed"} => last.res = "Invalid token"
    /\ last.token = "expired" => last.res = "Token expired"
    /\ last.token = "db-throws" => last.res = "Authentication failed"

(* ---- claims about reconnection (Spec) -------------------------------- *)

\* C30: after a join-room that took the reconnection branch and sent
\* room-joined, the joining connection is in the room's broadcast channel
\* (which the whiteboard access check tests) and the identity's presence
\* entry for the room stores that connection's id.
C30_ReconnectedConnectionIsMember ==
  (last.op = "join-room" /\ last.res = "reconnected") =>
    /\ last.room \in rooms[last.conn]
    /\ \A x \in presence[last.room] :
         x.id = userOf(last.conn) => x.socketId = last.conn

(* ---- claims about disconnects, rejected joins and channels ----------- *)

\* C33: a disconnect sends user-left for the disconnecting identity to the
\* members of a room only if the identity's entry in that room was removed;
\* a room whose entry was kept, because its socketId is another connection's,
\* gets no user-left.
C33_NoUserLeftForKeptEntry ==
  last.op = "disconnect" =>
    \A e \in out :
      (e.ev = "user-left" /\ e.to # {}) =>
        ~(\E x \in presence[e.room] :
            x.id = userOf(last.conn) /\ x.socketId # last.conn)

JoinRejections ==
  {"ROOM_NOT_FOUND", "OWNER_NOT_FOUND", "PARTICIPANT_LIMIT", "LIMIT_CHECK_FAILED"}

\* C34: a rejected join-room leaves the joiner's state in the room it was
\* in as it was: the room's presence entries, the connection's membership of
\* its channel and its current room are unchanged, and the room's members
\* get no user-left.
C34_RejectedJoinKeepsCurrentRoom ==
  [][ (last'.op = "join-room" /\ last'.res \in JoinRejections) =>
        LET c == last'.conn
            cur == currentRoom[c]
        IN cur # None =>
             /\ presence'[cur] = presence[cur]
             /\ (cur \in rooms'[c]) = (cur \in rooms[c])
             /\ currentRoom'[c] = cur
             /\ \A e \in out' : ~(e.ev = "user-left" /\ e.room = cur /\ e.to # {}) ]_vars

\* C35: an open connection is in at most one room channel, and its current
\* room is that channel.
C35_OneRoomChannelPerConnection ==
  \A c \in Conns :
    conn[c] = "open" =>
      /\ Cardinality(rooms[c] \cap Rooms) <= 1
      /\ rooms[c] \cap Rooms =
           (IF currentRoom[c] = None THEN {} ELSE {currentRoom[c]})

(* ---- claims about interleaved joins and disconnects (SpecRace) ------- *)

\* C31: once a connection has disconnected and its join-room handler has
\* finished, no presence entry stores that connection's id.
C31_NoEntryOfClosedConnection ==
  \A c \in Conns :
    (conn[c] = "closed" /\ joining[c].pc = "idle") =>
      \A r \in Rooms : \A x \in presence[r] : x.socketId # c

\* C32: however join-room handlers of distinct identities interleave, a room
\* never holds more presence entries than the participant limit of its
\* owner's plan.
C32_PresenceWithinPlanLimit ==
  \A r \in Rooms :
    Cardinality(presence[r]) <= maxParticipants(planOf(ownerOf(r)))

(* ---- claims about the rate limiters' counters ------------------------ *)

\* C36: when no rate-limited event is being handled, every counter key of
\* the socket limiter that holds a positive count has an expiry set.
C36_CountedKeyHasExpiry ==
  (\A c \in Conns : rlTask[c].pc = "idle") =>
    \A k \in RLKeys : RLLive(k) => rlExpireAt[k] # 0

\* C37: of the requests for one key handled within one window (here: at one
\* instant) the HTTP limiter lets through at most maxRequests plus one,
\* however the requests interleave.
C37_HttpLimitExceededByAtMostOne ==
  http.passed <= HttpMaxRequests + 1

(* ---- claims about sticky notes (SpecSticky) -------------------------- *)

====
